---- MODULE Spec2Model ----
(***************************************************************************)
(* Model of the self-signed certificate store of py-utils                  *)
(* (src/ssl_setup.py, class SSLManager).                                   *)
(*                                                                         *)
(* A common name is a sequence of characters.  A path is a sequence of     *)
(* components, each a sequence of characters, read from the file system    *)
(* root.  The store is the part of the file system the managers can reach: *)
(* a function from file identities to file contents.                       *)
(***************************************************************************)
EXTENDS Integers, Sequences, FiniteSets, TLC

(***************************************************************************)
(* Bounds of the model.                                                    *)
(***************************************************************************)
MaxGen == 2        \* keys the RSA generator hands out in one behaviour
MaxTime == 2       \* the clock runs 0..MaxTime
MaxProcs == 2      \* processes that call get_ssl_context() side by side

\* common names given to SSLManager(common_name=...)
CommonNames ==
    { <<"a">>, <<"b">>, <<".", "/", "a">> }

\* (valid_days, key_size) given to SSLManager(...)
Usual == [valid_days |-> 1, key_size |-> 2048]
NoDays == [valid_days |-> 0, key_size |-> 2048]
NegativeDays == [valid_days |-> 0 - 1, key_size |-> 2048]
BadKeySize == [valid_days |-> 1, key_size |-> 0]
Configs == { Usual, NoDays, NegativeDays, BadKeySize }

(***************************************************************************)
(* Path derivation: self.cert_dir / f"{self.common_name}.key.pem"          *)
(***************************************************************************)
\* the two fixed suffixes, each kept as one token: they hold no "/" and the
\* common names hold none of their letters
KeySuffix == <<".key.pem">>
CertSuffix == <<".cert.pem">>

\* the resolved cert_dir: <home>/certs, below the root
HomeDir == << <<"h">> >>
CertDir == << <<"h">>, <<"c">> >>
DotDot == <<".", ".">>

\* pathlib drops empty components and "." components when it parses
KeepPart(c) == c # <<>> /\ c # <<".">>

RECURSIVE SplitParts(_, _, _)
SplitParts(s, i, cur) ==
    IF i > Len(s)
    THEN IF KeepPart(cur) THEN <<cur>> ELSE <<>>
    ELSE IF s[i] = "/"
         THEN (IF KeepPart(cur) THEN <<cur>> ELSE <<>>) \o SplitParts(s, i + 1, <<>>)
         ELSE SplitParts(s, i + 1, Append(cur, s[i]))

\* PurePath.__truediv__: an absolute right operand replaces the left one
JoinPath(dir, s) ==
    IF Len(s) > 0 /\ s[1] = "/"
    THEN SplitParts(s, 1, <<>>)
    ELSE dir \o SplitParts(s, 1, <<>>)

\* the common name run_https_server.py gives its manager
ServerName == << "localhost" >>

Names == CommonNames \cup { ServerName }

\* self.key_path and self.cert_path of every common name, derived once
PathsOf ==
    [cn \in Names |->
        [key_path |-> JoinPath(CertDir, cn \o KeySuffix),
         cert_path |-> JoinPath(CertDir, cn \o CertSuffix)]]

KeyPathOf(cn) == PathsOf[cn].key_path
CertPathOf(cn) == PathsOf[cn].cert_path

(***************************************************************************)
(* The file system as the operating system resolves a path: ".." steps to  *)
(* the parent, every directory on the way has to exist.                    *)
(***************************************************************************)
Dirs(de) == { <<>>, HomeDir } \cup (IF de THEN {CertDir} ELSE {})

RECURSIVE Walk(_, _, _, _)
Walk(p, i, cur, de) ==
    IF i >= Len(p)
    THEN [ok |-> cur \in Dirs(de) /\ Len(p) > 0 /\ p[Len(p)] # DotDot,
          dir |-> cur,
          name |-> IF Len(p) > 0 THEN p[Len(p)] ELSE <<>>]
    ELSE IF cur \notin Dirs(de)
         THEN [ok |-> FALSE, dir |-> cur, name |-> <<>>]
         ELSE IF p[i] = DotDot
              THEN Walk(p, i + 1, IF cur = <<>> THEN cur ELSE SubSeq(cur, 1, Len(cur) - 1), de)
              ELSE Walk(p, i + 1, Append(cur, p[i]), de)

\* the paths the managers derive, resolved once
DerivedPaths ==
    { KeyPathOf(cn) : cn \in Names } \cup { CertPathOf(cn) : cn \in Names }
Resolved == [p \in DerivedPaths, de \in BOOLEAN |-> Walk(p, 1, <<>>, de)]

Resolve(p, de) == Resolved[p, de]
FileId(p, de) == [dir |-> Resolved[p, de].dir, name |-> Resolved[p, de].name]

VARIABLES
    disk,        \* file identity -> content, for the files that exist
    dirExists,   \* cert_dir exists
    managers,    \* the SSLManager object of the running script, if any
    nextKey,     \* the number of the next draw of a key and a serial number
    now,         \* the clock (days)
    last,        \* what the last call did
    procs,       \* the processes that call get_ssl_context() side by side
    boot,        \* the virtual environment and the process that bootstraps into it
    httpd,       \* the server of run_https_server.py
    alias,       \* a run of 1P_fastmail_alias.py
    split        \* a call of split_file() of 9mb_split_file.py

\* the state of the scripts around the certificate store
scripts == <<boot, httpd, alias, split>>

\* the state of the certificate store and of the scripts that use the class
store == <<disk, dirExists, managers, nextKey, now, last, procs>>

vars == <<disk, dirExists, managers, nextKey, now, last, procs, scripts>>

(***************************************************************************)
(* File contents.                                                          *)
(***************************************************************************)
Truncated == [kind |-> "truncated"]   \* opened "wb", the text not or partly written
KeyFile(k) == [kind |-> "key", key |-> k]
CertFile(c) == [kind |-> "cert", cert |-> c]

NoKey == 0
NoCtx == [loaded |-> FALSE]
NoCall ==
    [op |-> "none", cn |-> <<>>, result |-> "none", gens |-> 0,
     failed |-> "none", writes |-> {}, key |-> NoKey, ctx |-> NoCtx, again |-> FALSE, had |-> {},
     after |-> "none", printed |-> <<>>]

\* the call op(cn) directly follows a call of the same operation for the same
\* common name that returned
Again(l, op, cn) == l.op = op /\ l.cn = cn /\ l.result = "ok"

\* the operation whose returned call for cn the next call for cn directly
\* follows
After(l, cn) == IF l.cn = cn /\ l.result = "ok" THEN l.op ELSE "none"

Exists(p, d, de) == Resolve(p, de).ok /\ FileId(p, de) \in DOMAIN d

\* which of the two files of m exist on d
Had(m, d, de) ==
    (IF Exists(m.key_path, d, de) THEN {"key"} ELSE {})
    \cup (IF Exists(m.cert_path, d, de) THEN {"cert"} ELSE {})

\* what a read of the path p finds on d
Absent == [kind |-> "absent"]
FileAt(p, d) == IF Exists(p, d, dirExists) THEN d[FileId(p, dirExists)] ELSE Absent

\* variant: a file whose write failed is removed
PutMutUnlinkPartial(d, f, content) ==
    IF content = Truncated
    THEN [x \in DOMAIN d \ {f} |-> d[x]]
    ELSE [x \in DOMAIN d \cup {f} |-> IF x = f THEN content ELSE d[x]]

\* open(path, "wb") followed by f.write(content)
Put(d, f, content) == [x \in DOMAIN d \cup {f} |-> IF x = f THEN content ELSE d[x]]

(***************************************************************************)
(* SSLManager.__init__                                                     *)
(***************************************************************************)
Manager(cn, cfg) ==
    [common_name |-> cn, valid_days |-> cfg.valid_days, key_size |-> cfg.key_size,
     key_path |-> KeyPathOf(cn), cert_path |-> CertPathOf(cn)]

\* where the constructor can fail
MkdirFailures == { "none", "mkdir" }

\* variant: the constructor does not create cert_dir
ConstructMutNoMkdir(cn, cfg, fail) ==
    /\ managers' = {Manager(cn, cfg)}
    /\ dirExists' = dirExists
    /\ last' = [NoCall EXCEPT !.op = "init", !.cn = cn, !.result = "ok"]
    /\ UNCHANGED <<disk, nextKey, now, procs>>

\* a run of a script constructs its SSLManager; when mkdir raises, the script
\* has no manager
Construct(cn, cfg, fail) ==
    /\ fail = "mkdir" => ~dirExists     \* mkdir of a directory that exists does nothing
    /\ IF fail = "mkdir"
       THEN /\ managers' = {}
            /\ dirExists' = dirExists
            /\ last' = [NoCall EXCEPT !.op = "init", !.cn = cn, !.result = "io_error",
                                      !.failed = "mkdir"]
       ELSE /\ managers' = {Manager(cn, cfg)}
            /\ dirExists' = TRUE
            /\ last' = [NoCall EXCEPT !.op = "init", !.cn = cn, !.result = "ok"]
    /\ UNCHANGED <<disk, nextKey, now, procs>>

(***************************************************************************)
(* SSLManager.generate_self_signed_cert                                    *)
(***************************************************************************)
\* where a call of generate_self_signed_cert can fail
Failures ==
    { "none", "keygen", "sign", "key_open", "key_write", "cert_open", "cert_write" }

\* rsa.generate_private_key rejects a key size below its minimum
KeySizeOk(ks) == ks >= 512

\* rsa.generate_private_key and x509.random_serial_number draw from the
\* system's random source: the n-th draw is a value no earlier draw gave
\* variant: the key of the draw before is handed out again
FreshKeyMutCached(n) == IF n > 1 THEN n - 1 ELSE n
FreshKey(n) == n

\* variant: the serial number of the draw before is issued again
RandomSerialMutReissued(n) == IF n > 1 THEN n - 1 ELSE n
RandomSerial(n) == n

\* the clock counts days; a certificate's times are in ticks of the clock's
\* resolution
TicksPerDay == 2

\* generate_self_signed_cert reads the clock twice, for not_valid_before and
\* for not_valid_after: the second reading is the first or a tick later
Skews == { 0, 1 }
Readings(day, skew) == << day * TicksPerDay, day * TicksPerDay + skew >>

Organization == "Local Development"
Name(cn) == [cn |-> cn, o |-> Organization]

\* variant: valid_days is added as ticks, not as days
BuildCertMutTicks(m, k, serial, t) ==
    [subject |-> Name(m.common_name), issuer |-> Name(m.common_name),
     san |-> {m.common_name},
     pub |-> k, signer |-> k, serial |-> serial,
     not_before |-> t[1], not_after |-> t[2] + m.valid_days]

\* variant: no Subject Alternative Name
BuildCertMutNoSan(m, k, serial, t) ==
    [subject |-> Name(m.common_name), issuer |-> Name(m.common_name),
     san |-> {},
     pub |-> k, signer |-> k, serial |-> serial,
     not_before |-> t[1], not_after |-> t[2] + m.valid_days * TicksPerDay]

\* t: the two readings of the clock
BuildCert(m, k, serial, t) ==
    [subject |-> Name(m.common_name), issuer |-> Name(m.common_name),
     san |-> {m.common_name},
     pub |-> k, signer |-> k, serial |-> serial,
     not_before |-> t[1], not_after |-> t[2] + m.valid_days * TicksPerDay]

\* variant: a failure at the certificate file puts the key file back as it
\* was
GenerateMutCleanup(m, d, de, nk, t, fail) ==
    LET k == FreshKey(nk)
        c == BuildCert(m, k, RandomSerial(nk), t)
        kp == Resolve(m.key_path, de)
        cp == Resolve(m.cert_path, de)
        kf == FileId(m.key_path, de)
        cf == FileId(m.cert_path, de)
        out(dd, res, w, key, next, failed) ==
            [disk |-> dd, result |-> res, writes |-> w, key |-> key, next |-> next,
             failed |-> failed]
    IN  IF ~KeySizeOk(m.key_size) \/ fail = "keygen"
        THEN out(d, "generation_error", {}, NoKey, nk, "keygen")
        ELSE IF c.not_after < c.not_before
        THEN out(d, "generation_error", {}, k, nk + 1, "build")
        ELSE IF fail = "sign"
        THEN out(d, "generation_error", {}, k, nk + 1, "sign")
        ELSE IF ~kp.ok \/ fail = "key_open"
        THEN out(d, "io_error", {}, k, nk + 1, "key_open")
        ELSE IF fail = "key_write"
        THEN out(Put(d, kf, Truncated), "io_error", {kf}, k, nk + 1, "key_write")
        ELSE IF ~cp.ok \/ fail = "cert_open"
        THEN out(d, "io_error", {kf}, k, nk + 1, "cert_open")
        ELSE IF fail = "cert_write"
        THEN out(d, "io_error", {kf, cf}, k,
                 nk + 1, "cert_write")
        ELSE out(Put(Put(d, kf, KeyFile(k)), cf, CertFile(c)), "ok", {kf, cf}, k, nk + 1,
                 "none")

\* what one run of generate_self_signed_cert does to the disk d; failed is
\* the step that raised
Generate(m, d, de, nk, t, fail) ==
    LET k == FreshKey(nk)
        c == BuildCert(m, k, RandomSerial(nk), t)
        kp == Resolve(m.key_path, de)
        cp == Resolve(m.cert_path, de)
        kf == FileId(m.key_path, de)
        cf == FileId(m.cert_path, de)
        out(dd, res, w, key, next, failed) ==
            [disk |-> dd, result |-> res, writes |-> w, key |-> key, next |-> next,
             failed |-> failed]
    IN  IF ~KeySizeOk(m.key_size) \/ fail = "keygen"
        THEN out(d, "generation_error", {}, NoKey, nk, "keygen")
        ELSE IF c.not_after < c.not_before
        THEN out(d, "generation_error", {}, k, nk + 1, "build")
        ELSE IF fail = "sign"
        THEN out(d, "generation_error", {}, k, nk + 1, "sign")
        ELSE IF ~kp.ok \/ fail = "key_open"
        THEN out(d, "io_error", {}, k, nk + 1, "key_open")
        ELSE IF fail = "key_write"
        THEN out(Put(d, kf, Truncated), "io_error", {kf}, k, nk + 1, "key_write")
        ELSE IF ~cp.ok \/ fail = "cert_open"
        THEN out(Put(d, kf, KeyFile(k)), "io_error", {kf}, k, nk + 1, "cert_open")
        ELSE IF fail = "cert_write"
        THEN out(Put(Put(d, kf, KeyFile(k)), cf, Truncated), "io_error", {kf, cf}, k,
                 nk + 1, "cert_write")
        ELSE out(Put(Put(d, kf, KeyFile(k)), cf, CertFile(c)), "ok", {kf, cf}, k, nk + 1,
                 "none")

GenerateSelfSignedCert(m, fail, skew) ==
    /\ m \in managers
    /\ nextKey <= MaxGen
    /\ LET g == Generate(m, disk, dirExists, nextKey, Readings(now, skew), fail)
       IN  /\ disk' = g.disk
           /\ nextKey' = g.next
           /\ last' = [op |-> "generate", cn |-> m.common_name, result |-> g.result,
                       gens |-> 1, failed |-> g.failed,
                       writes |-> g.writes, key |-> g.key, ctx |-> NoCtx,
                       again |-> Again(last, "generate", m.common_name),
                       had |-> Had(m, disk, dirExists),
                       after |-> After(last, m.common_name), printed |-> <<>>]
    /\ UNCHANGED <<dirExists, managers, now, procs>>

(***************************************************************************)
(* SSLManager.ensure_certificate                                           *)
(***************************************************************************)
\* variant: also looks into the files
BothExistMutLoadable(m, d, de) ==
    /\ Exists(m.key_path, d, de) /\ Exists(m.cert_path, d, de)
    /\ d[FileId(m.key_path, de)].kind = "key"
    /\ d[FileId(m.cert_path, de)].kind = "cert"
    /\ d[FileId(m.cert_path, de)].cert.pub = d[FileId(m.key_path, de)].key

\* variant: one file is enough
BothExistMutEither(m, d, de) == Exists(m.key_path, d, de) \/ Exists(m.cert_path, d, de)

BothExist(m, d, de) == Exists(m.key_path, d, de) /\ Exists(m.cert_path, d, de)

\* variant: no existence check
EnsureMutAlways(m, d, de, nk, t, fail) ==
    [gens |-> 1] @@ Generate(m, d, de, nk, t, fail)

\* variant: a generation that raised is run a second time
EnsureMutRetry(m, d, de, nk, t, fail) ==
    IF BothExist(m, d, de)
    THEN [disk |-> d, result |-> "ok", writes |-> {}, key |-> NoKey, next |-> nk, gens |-> 0,
          failed |-> "none"]
    ELSE LET g == Generate(m, d, de, nk, t, fail)
         IN  IF g.result = "ok"
             THEN [gens |-> 1] @@ g
             ELSE [gens |-> 2] @@ Generate(m, g.disk, de, g.next, t, "none")

\* what one run of ensure_certificate does to the disk d
Ensure(m, d, de, nk, t, fail) ==
    IF BothExist(m, d, de)
    THEN [disk |-> d, result |-> "ok", writes |-> {}, key |-> NoKey, next |-> nk, gens |-> 0,
          failed |-> "none"]
    ELSE [gens |-> 1] @@ Generate(m, d, de, nk, t, fail)

EnsureCertificate(m, fail, skew) ==
    /\ m \in managers
    /\ BothExist(m, disk, dirExists) \/ nextKey <= MaxGen
    /\ BothExist(m, disk, dirExists) => fail = "none"    \* nothing runs that could fail
    /\ LET e == Ensure(m, disk, dirExists, nextKey, Readings(now, skew), fail)
       IN  /\ disk' = e.disk
           /\ nextKey' = e.next
           /\ last' = [op |-> "ensure", cn |-> m.common_name, result |-> e.result,
                       gens |-> e.gens, failed |-> e.failed,
                       writes |-> e.writes, key |-> e.key, ctx |-> NoCtx,
                       again |-> Again(last, "ensure", m.common_name),
                       had |-> Had(m, disk, dirExists),
                       after |-> After(last, m.common_name), printed |-> <<>>]
    /\ UNCHANGED <<dirExists, managers, now, procs>>

(***************************************************************************)
(* SSLManager.get_ssl_context                                              *)
(***************************************************************************)
\* variant: the key is not checked against the certificate
LoadCertChainMutNoMatch(m, d, de) ==
    IF ~BothExist(m, d, de)
    THEN [result |-> "load_error", ctx |-> NoCtx]
    ELSE LET kc == d[FileId(m.key_path, de)]
             cc == d[FileId(m.cert_path, de)]
         IN  IF kc.kind = "key" /\ cc.kind = "cert"
             THEN [result |-> "ok", ctx |-> [loaded |-> TRUE, cert |-> cc.cert, key |-> kc.key]]
             ELSE [result |-> "load_error", ctx |-> NoCtx]

\* context.load_cert_chain(certfile, keyfile) on the disk d
LoadCertChain(m, d, de) ==
    IF ~BothExist(m, d, de)
    THEN [result |-> "load_error", ctx |-> NoCtx]
    ELSE LET kc == d[FileId(m.key_path, de)]
             cc == d[FileId(m.cert_path, de)]
         IN  IF kc.kind = "key" /\ cc.kind = "cert" /\ cc.cert.pub = kc.key
             THEN [result |-> "ok", ctx |-> [loaded |-> TRUE, cert |-> cc.cert, key |-> kc.key]]
             ELSE [result |-> "load_error", ctx |-> NoCtx]

\* variant: loads before it ensures
GetContextMutLoadFirst(m, d, de, nk, t, fail) ==
    LET l == LoadCertChain(m, d, de)
        e == Ensure(m, d, de, nk, t, fail)
    IN  IF l.result # "ok"
        THEN [result |-> l.result, ctx |-> NoCtx] @@ e
        ELSE [result |-> e.result, ctx |-> l.ctx] @@ e

\* variant: generates instead of ensuring
GetContextMutRegenerate(m, d, de, nk, t, fail) ==
    LET e == EnsureMutAlways(m, d, de, nk, t, fail)
        l == LoadCertChain(m, e.disk, de)
    IN  IF e.result # "ok"
        THEN [ctx |-> NoCtx] @@ e
        ELSE [result |-> l.result, ctx |-> l.ctx] @@ e

GetContext(m, d, de, nk, t, fail) ==
    LET e == Ensure(m, d, de, nk, t, fail)
        l == LoadCertChain(m, e.disk, de)
    IN  IF e.result # "ok"
        THEN [ctx |-> NoCtx] @@ e
        ELSE [result |-> l.result, ctx |-> l.ctx] @@ e

GetSslContext(m, fail, skew) ==
    /\ m \in managers
    /\ BothExist(m, disk, dirExists) \/ nextKey <= MaxGen
    /\ BothExist(m, disk, dirExists) => fail = "none"    \* no generation that could fail
    /\ LET g == GetContext(m, disk, dirExists, nextKey, Readings(now, skew), fail)
       IN  /\ disk' = g.disk
           /\ nextKey' = g.next
           /\ last' = [op |-> "context", cn |-> m.common_name, result |-> g.result,
                       gens |-> g.gens, failed |-> g.failed,
                       writes |-> g.writes, key |-> g.key, ctx |-> g.ctx,
                       again |-> Again(last, "context", m.common_name),
                       had |-> Had(m, disk, dirExists),
                       after |-> After(last, m.common_name), printed |-> <<>>]
    /\ UNCHANGED <<dirExists, managers, now, procs>>

(***************************************************************************)
(* The command line: python ssl_setup.py -n common_name                    *)
(***************************************************************************)
DefaultConfig == [valid_days |-> 3650, key_size |-> 2048]

\* the two lines the script prints
Lines(m) == << <<"Generated key at", m.key_path>>,
               <<"Generated certificate at", m.cert_path>> >>

\* variant: the script ensures instead of generating
CliMutEnsure(m, d, de, nk, t, fail) ==
    LET g == Ensure(m, d, de, nk, t, fail)
    IN  [printed |-> IF g.result = "ok" THEN Lines(m) ELSE <<>>] @@ g

\* what the script does after it constructed its manager
Cli(m, d, de, nk, t, fail) ==
    LET g == Generate(m, d, de, nk, t, fail)
    IN  [gens |-> 1, printed |-> IF g.result = "ok" THEN Lines(m) ELSE <<>>] @@ g

\* one run of the script, from the constructor to the exit
CliMain(cn, mk, fail, skew) ==
    /\ nextKey <= MaxGen
    /\ managers' = {}
    /\ mk = "mkdir" => ~dirExists
    /\ IF mk = "mkdir"
       THEN /\ last' = [NoCall EXCEPT !.op = "cli", !.cn = cn, !.result = "io_error",
                                      !.failed = "mkdir"]
            /\ UNCHANGED <<disk, dirExists, nextKey>>
       ELSE LET m == Manager(cn, DefaultConfig)
                c == Cli(m, disk, TRUE, nextKey, Readings(now, skew), fail)
            IN  /\ dirExists' = TRUE
                /\ disk' = c.disk
                /\ nextKey' = c.next
                /\ last' = [op |-> "cli", cn |-> cn, result |-> c.result,
                            gens |-> c.gens, failed |-> c.failed,
                            writes |-> c.writes, key |-> c.key, ctx |-> NoCtx,
                            again |-> Again(last, "cli", cn),
                            had |-> Had(m, disk, dirExists),
                            after |-> After(last, cn), printed |-> c.printed]
    /\ UNCHANGED <<now, procs>>

(***************************************************************************)
(* The clock and the specification.                                        *)
(***************************************************************************)
\* somebody removes cert_dir and the files in it
RemoveDir ==
    /\ dirExists
    /\ dirExists' = FALSE
    /\ disk' = [f \in { x \in DOMAIN disk : x.dir # CertDir } |-> disk[f]]
    /\ last' = [NoCall EXCEPT !.op = "rmdir"]
    /\ UNCHANGED <<managers, nextKey, now, procs>>

Tick ==
    /\ now < MaxTime
    /\ now' = now + 1
    /\ UNCHANGED <<disk, dirExists, managers, nextKey, last, procs>>

(***************************************************************************)
(* 1P_fastmail_alias.py: a masked email at Fastmail and a login item in    *)
(* 1Password.  Strings are tokens; a command line is a sequence of them.   *)
(***************************************************************************)
Titles == { "Example", "password" }          \* --title (required)
Vaults == { "", "Private", "password" }      \* --vault or DEFAULT_VAULT, "" when neither
Tokens == { "", "token" }                    \* --fastmail-token or FASTMAIL_TOKEN
Urls == { "", "https://example.com" }        \* --url
TagLists == { <<>>, << "password" >> }       \* the merged tags

Password == "s3cr3t"                         \* what generate_password() returned
Stars8 == "********"
Stars24 == "************************"        \* '*' * len(password)
Notes == "Masked Email Details"
MockEmail == "mock@fastmail.com"
NewEmail == "new@fastmail.com"

RECURSIVE TagArgs(_)
TagArgs(tags) ==
    IF tags = <<>> THEN <<>> ELSE << "--tags", Head(tags) >> \o TagArgs(Tail(tags))

\* lines 60-80: the command create_login_item() builds
Command(title, vault, username, password, url, notes, tags) ==
    << "op", "item", "create", "--category", "login", "--title", title, "--vault", vault >>
    \o (IF username # "" THEN << "username", username >> ELSE <<>>)
    \o (IF password # "" THEN << "password", password >> ELSE <<>>)
    \o (IF url # "" THEN << "--url", url >> ELSE <<>>)
    \o (IF notes # "" THEN << "--notes", notes >> ELSE <<>>)
    \o TagArgs(tags)

\* list.index
Index(s, x) == CHOOSE i \in 1..Len(s) : s[i] = x /\ \A j \in 1..(i - 1) : s[j] # x

\* lines 85-88: the copy of the command that is printed
SafeCommand(cmd, password) ==
    IF password # "" THEN [cmd EXCEPT ![Index(cmd, "password") + 1] = Stars8] ELSE cmd

\* lines 91-104 and 176-190: the mock responses
MockItem == [id |-> "dry-run-item-id"]
MockMasked(prefix, domain) == [id |-> "dry-run-email-id", email |-> MockEmail]
NoResponse == [id |-> "none"]

\* no run of the script
NoRun ==
    [pc |-> "none", title |-> "", vault |-> "", token |-> "", url |-> "", tags |-> <<>>,
     dry |-> FALSE, installed |-> FALSE, signed |-> FALSE,
     sent |-> {}, ran |-> {}, out |-> <<>>, masked |-> NoResponse, item |-> NoResponse,
     password |-> "", error |-> "none"]

\* lines 268-306: the arguments are parsed and completed
ParseArgs(title, vault, token, url, tags, dry, installed, signed) ==
    /\ alias.pc = "none"
    /\ LET a == [NoRun EXCEPT !.title = title, !.url = url, !.tags = tags, !.dry = dry,
                              !.installed = installed, !.signed = signed]
       IN  alias' =
             IF token = "" /\ ~dry THEN [a EXCEPT !.pc = "error", !.error = "no token"]
             ELSE IF vault = "" /\ ~dry THEN [a EXCEPT !.pc = "error", !.error = "no vault"]
             ELSE [a EXCEPT !.pc = "clients",
                            !.token = IF token = "" THEN "dry-run-token" ELSE token,
                            !.vault = IF vault = "" THEN "dry-run-vault" ELSE vault]

\* lines 309-310: OnePasswordClient() runs `op --version`; FastmailClient()
\* asks for the session unless it is a dry run
MakeClients(ok) ==
    /\ alias.pc = "clients"
    /\ alias.dry \/ ~alias.installed => ok     \* no request that could fail
    /\ alias' =
         IF ~alias.installed
         THEN [alias EXCEPT !.pc = "error", !.error = "no op", !.ran = @ \cup {"version"}]
         ELSE IF alias.dry
         THEN [alias EXCEPT !.pc = "signin", !.ran = @ \cup {"version"}]
         ELSE [alias EXCEPT !.pc = IF ok THEN "signin" ELSE "error",
                            !.error = IF ok THEN "none" ELSE "session",
                            !.ran = @ \cup {"version"}, !.sent = @ \cup {"session"}]

\* lines 313-318: `op account list`, then the header of a dry run
SignedIn ==
    /\ alias.pc = "signin"
    /\ alias' =
         IF ~alias.signed /\ ~alias.dry
         THEN [alias EXCEPT !.pc = "error", !.error = "not signed in",
                            !.ran = @ \cup {"account list"}]
         ELSE [alias EXCEPT !.pc = "email", !.ran = @ \cup {"account list"},
                            !.out = IF alias.dry THEN Append(@, << "DRY RUN MODE" >>) ELSE @]

\* FastmailClient.create_masked_email (lines 165-241)
CreateMaskedEmail(a, ok) ==
    IF a.dry
    THEN [a EXCEPT !.masked = MockMasked("", ""),
                   !.out = Append(@, << "[DRY RUN] Would create masked email with:" >>)]
    ELSE IF ok
         THEN [a EXCEPT !.masked = [id |-> "new", email |-> NewEmail],
                        !.sent = @ \cup {"create"}]
         ELSE [a EXCEPT !.error = "create", !.sent = @ \cup {"create"}]

\* lines 321-333
MaskedEmail(ok) ==
    /\ alias.pc = "email"
    /\ alias.dry => ok
    /\ LET a == CreateMaskedEmail(alias, ok)
       IN  alias' = IF a.error # "none" THEN [a EXCEPT !.pc = "error"]
                    ELSE [a EXCEPT !.pc = "password",
                                   !.out = Append(@, << "masked email:", a.masked.email >>)]

\* lines 336-338
GeneratePassword ==
    /\ alias.pc = "password"
    /\ alias' = [alias EXCEPT !.pc = "item", !.password = Password,
                   !.out = IF alias.dry
                           THEN Append(@, << "[DRY RUN] Would generate password:", Stars24 >>)
                           ELSE @]

\* OnePasswordClient.create_login_item (lines 56-112)
CreateLoginItem(a, title, vault, username, password, url, notes, tags, ok) ==
    LET cmd == Command(title, vault, username, password, url, notes, tags)
    IN  IF a.dry
        THEN [a EXCEPT !.item = MockItem,
                       !.out = Append(@, << "[DRY RUN] Would execute command:" >>
                                          \o SafeCommand(cmd, password))]
        ELSE IF ok
             THEN [a EXCEPT !.item = [id |-> "new"], !.ran = @ \cup {"item create"}]
             ELSE [a EXCEPT !.error = "item", !.ran = @ \cup {"item create"}]

\* lines 341-358
LoginItem(ok) ==
    /\ alias.pc = "item"
    /\ alias.dry => ok
    /\ LET a == CreateLoginItem(alias, alias.title, alias.vault, alias.masked.email,
                                alias.password, alias.url, Notes, alias.tags, ok)
       IN  alias' = IF a.error # "none" THEN [a EXCEPT !.pc = "error"]
                    ELSE [a EXCEPT !.pc = "done",
                                   !.out = Append(@, << "item:", a.title, a.vault, a.item.id >>)]


(***************************************************************************)
(* 9mb_split_file.py: split_file.  A file is a sequence of bytes; the      *)
(* output directory maps the names of its files to their contents.         *)
(***************************************************************************)
MaxSize == 3     \* bytes in the file that is split
MaxChunk == 3    \* max_size_bytes

Bytes == { 0, 1 }
Contents == UNION { [1..n -> Bytes] : n \in 0..MaxSize }

\* the base names of the files that are split: name and extension, the name
\* ending with "- ORIGINAL" or not
BaseNames == { [name |-> "song", original |-> b, ext |-> ".mp3"] : b \in BOOLEAN }

\* f'{name} - Part {i+1}{ext}' (line 82)
ChunkName(base, i) ==
    << base.name, IF base.original THEN "- ORIGINAL" ELSE "", " - Part ", i, base.ext >>

\* lines 89-96: the name the original is moved to
OriginalName(base) == << base.name, "- ORIGINAL", base.ext >>

\* variant: the number of whole chunks
NumChunksMutFloor(size, max) == size \div max

\* math.ceil(total_size / max_size_bytes) (line 72)
NumChunks(size, max) == IF size % max = 0 THEN size \div max ELSE size \div max + 1

Min(a, b) == IF a < b THEN a ELSE b

\* f.read(chunk_size) at position pos
ReadChunk(content, pos, size) == SubSeq(content, pos + 1, Min(pos + size, Len(content)))

\* no call of split_file
NoSplit ==
    [pc |-> "none", base |-> [name |-> "", original |-> FALSE, ext |-> ""],
     content |-> <<>>, max |-> 0, inPlace |-> FALSE, n |-> 0, i |-> 0, pos |-> 0,
     outdir |-> <<>>, error |-> "none"]

\* lines 66-72: the sizes and the number of chunks; a maximum below one byte
\* is 0 after int() and the division raises
SplitStart(base, content, max) ==
    /\ split.pc = "none"
    /\ split' =
         IF max = 0
         THEN [NoSplit EXCEPT !.pc = "error", !.error = "ZeroDivisionError", !.base = base,
                              !.content = content, !.inPlace = TRUE]
         ELSE [NoSplit EXCEPT !.pc = "chunks", !.base = base, !.content = content,
                              !.max = max, !.inPlace = TRUE,
                              !.n = NumChunks(Len(content), max)]

\* lines 78-85: one turn of the loop; open(..., 'wb') empties the chunk file
\* and a write that fails ends the call
WriteChunk(ok) ==
    /\ split.pc = "chunks"
    /\ split.i < split.n
    /\ LET chunk == ReadChunk(split.content, split.pos, split.max)
           name == ChunkName(split.base, split.i + 1)
       IN  split' =
             IF ok
             THEN [split EXCEPT !.i = @ + 1, !.pos = @ + Len(chunk),
                                !.outdir = (name :> chunk) @@ @]
             ELSE [split EXCEPT !.pc = "error", !.error = "OSError",
                                !.outdir = (name :> <<>>) @@ @]

\* line 99: shutil.move of the original into the output directory
MoveOriginal ==
    /\ split.pc = "chunks"
    /\ split.i = split.n
    /\ split' = [split EXCEPT !.pc = "done", !.inPlace = FALSE,
                              !.outdir = (OriginalName(split.base) :> split.content) @@ @]


(***************************************************************************)
(* module_venv.py: the virtual environment of a script and the bootstrap   *)
(* into it.  boot holds the environment on disk (dir, python, pkgs), the   *)
(* process image that runs the script (pc, interp, flag) and what the      *)
(* chain of images of one invocation did so far.                           *)
(***************************************************************************)
MaxRuns == 2     \* invocations of the script by the user
MaxConn == 1     \* connections the server accepts

\* the interpreters a script can run under: the system's, the one of the
\* target environment, the one of the target environment under a path that
\* does not spell venv_name (a link, another working directory), the one of
\* another environment whose path contains venv_name, the one of an
\* unrelated environment
Interpreters == { "system", "target", "renamed", "lookalike", "other" }

\* the interpreters of the target environment
OfTarget == { "target", "renamed" }

\* the packages run_https_server.py asks for (line 16)
ServerPackages == { "cryptography" }

\* sys.prefix != sys.base_prefix
InVenv(interp) == interp # "system"

\* self.venv_name in sys.prefix or sys.prefix.endswith(self.venv_name)
NameInPrefix(interp) == interp \in { "target", "lookalike" }

\* where the bootstrap can fail: venv.create raises, venv.create leaves no
\* interpreter at the path get_python_path() names, pip fails, execv fails
SwitchFailures == { "none", "create", "no_python", "install", "exec" }

\* VirtualEnvironment.setup: create(), then install_packages() if there are
\* packages
Setup(b, packages, fail) ==
    IF fail = "create"
    THEN [raised |-> TRUE, dir |-> FALSE, python |-> FALSE, pkgs |-> b.pkgs,
          did |-> {}, failed |-> "create"]
    ELSE LET python == fail # "no_python"
             made == IF fail = "no_python" THEN fail ELSE "none"
         IN  IF packages = {}
             THEN [raised |-> FALSE, dir |-> TRUE, python |-> python, pkgs |-> b.pkgs,
                   did |-> {"create"}, failed |-> made]
             ELSE IF fail = "install"
                  THEN [raised |-> TRUE, dir |-> TRUE, python |-> TRUE, pkgs |-> b.pkgs,
                        did |-> {"create"}, failed |-> "install"]
                  ELSE [raised |-> FALSE, dir |-> TRUE, python |-> python,
                        pkgs |-> b.pkgs \cup packages,
                        did |-> {"create", "install"}, failed |-> made]

\* the state auto_switch() finds (lines 110-114)
Found(b) ==
    IF InVenv(b.interp) /\ NameInPrefix(b.interp) THEN "active"
    ELSE IF ~b.dir THEN "missing"
    ELSE "present"

\* the environment as the call leaves it and how the call ends: it returns
\* True or False, raises, or replaces the process image
Outcome(b, s, how, failed) ==
    [outcome |-> how, dir |-> s.dir, python |-> s.python, pkgs |-> s.pkgs,
     did |-> s.did \cup (IF how = "exec" THEN {"exec"} ELSE {}),
     failed |-> failed, found |-> Found(b)]

Untouched(b) ==
    [raised |-> FALSE, dir |-> b.dir, python |-> b.python, pkgs |-> b.pkgs,
     did |-> {}, failed |-> "none"]

\* variant: the call re-launches whether or not the sentinel is there
AutoSwitchMutNoSentinel(b, packages, fail) ==
    IF Found(b) = "active"
    THEN Outcome(b, Untouched(b), "true", "none")
    ELSE LET s == IF ~b.dir THEN Setup(b, packages, fail) ELSE Untouched(b)
         IN  IF s.raised THEN Outcome(b, s, "raise", s.failed)
             ELSE IF ~s.python THEN Outcome(b, s, "false", s.failed)
             ELSE IF fail = "exec" THEN Outcome(b, s, "raise", "exec")
             ELSE Outcome(b, s, "exec", s.failed)

\* variant: the call re-launches without looking for the interpreter
AutoSwitchMutNoLookup(b, packages, fail) ==
    IF Found(b) = "active"
    THEN Outcome(b, Untouched(b), "true", "none")
    ELSE LET s == IF ~b.dir THEN Setup(b, packages, fail) ELSE Untouched(b)
         IN  IF s.raised THEN Outcome(b, s, "raise", s.failed)
             ELSE IF ~b.flag
                  THEN IF fail = "exec" THEN Outcome(b, s, "raise", "exec")
                       ELSE Outcome(b, s, "exec", s.failed)
                  ELSE Outcome(b, s, "true", s.failed)

\* AutoVirtualEnvironment.auto_switch
AutoSwitch(b, packages, fail) ==
    IF Found(b) = "active"
    THEN Outcome(b, Untouched(b), "true", "none")
    ELSE LET s == IF ~b.dir THEN Setup(b, packages, fail) ELSE Untouched(b)
         IN  IF s.raised THEN Outcome(b, s, "raise", s.failed)
             ELSE IF ~s.python THEN Outcome(b, s, "false", s.failed)
             ELSE IF ~b.flag
                  THEN IF fail = "exec" THEN Outcome(b, s, "raise", "exec")
                       ELSE Outcome(b, s, "exec", s.failed)
                  ELSE Outcome(b, s, "true", s.failed)

\* no process runs the script
NoProcess ==
    [pc |-> "none", interp |-> "system", flag |-> FALSE,
     ret |-> "none", found |-> "none", did |-> {}, failed |-> "none",
     launches |-> 0, switched |-> FALSE, imported |-> FALSE, error |-> "none"]

\* an environment on disk and the packages of the other interpreters
Environment(dir, python, pkgs, host) ==
    [dir |-> dir, python |-> python, pkgs |-> pkgs, hostCrypto |-> host,
     runs |-> 0, created |-> 0]

NoBoot == NoProcess @@ Environment(FALSE, FALSE, {}, FALSE)

\* the server before run_https_server.py made it
NoServer == [ctx |-> "none", bound |-> FALSE, wrapped |-> FALSE, accepted |-> 0]

Init ==
    /\ disk = <<>>
    /\ dirExists = FALSE
    /\ managers = {}
    /\ nextKey = 1
    /\ now = 0
    /\ last = NoCall
    /\ procs = <<>>
    /\ boot = NoBoot
    /\ httpd = NoServer
    /\ alias = NoRun
    /\ split = NoSplit

\* the steps of a script that is given names, configurations and clock
\* readings of these sets
Step(names, cfgs, skews) ==
    /\ \/ \E cn \in names, cfg \in cfgs, f \in MkdirFailures : Construct(cn, cfg, f)
       \/ \E m \in managers, f \in Failures, s \in skews : GenerateSelfSignedCert(m, f, s)
       \/ \E m \in managers, f \in Failures, s \in skews : EnsureCertificate(m, f, s)
       \/ \E m \in managers, f \in Failures, s \in skews : GetSslContext(m, f, s)
       \/ RemoveDir
       \/ Tick
    /\ UNCHANGED scripts

\* the store under several names and the usual configuration, the clock
\* steady while a certificate is built; SpecValidity below varies the
\* configuration and the clock
Next == Step(CommonNames, { Usual }, { 0 })

Spec == Init /\ [][Next]_vars

\* one name under every configuration, the clock steady or advancing while a
\* certificate is built
NextValidity == Step({ <<"a">> }, Configs, Skews)
SpecValidity == Init /\ [][NextValidity]_vars

\* runs of the command line script among runs of a script that uses the
\* class, for one name
NextCli ==
    \/ Step({ <<"a">> }, { Usual }, { 0 })
    \/ /\ \E mk \in MkdirFailures, f \in Failures, s \in Skews : CliMain(<<"a">>, mk, f, s)
       /\ UNCHANGED scripts
SpecCli == Init /\ [][NextCli]_vars

(***************************************************************************)
(* run_https_server.py, from the start of the interpreter to the server.   *)
(***************************************************************************)
\* the running interpreter can import cryptography
HasCryptography(b) ==
    IF b.interp \in OfTarget THEN "cryptography" \in b.pkgs ELSE b.hostCrypto

\* the user starts the script with an interpreter and arguments of their choice
Launch(interp, flag) ==
    /\ boot.pc \in { "none", "closed", "crashed" }
    /\ boot.runs < MaxRuns
    /\ interp \in OfTarget => boot.python
    /\ boot' = [NoProcess EXCEPT !.pc = "import", !.interp = interp, !.flag = flag]
               @@ [boot EXCEPT !.runs = @ + 1]
    /\ httpd' = NoServer
    /\ managers' = {}
    /\ last' = NoCall
    /\ UNCHANGED <<disk, dirExists, nextKey, now, procs>>

\* lines 9-10: module_venv and ssl_setup are imported; ssl_setup imports
\* cryptography or raises ImportError
Import ==
    /\ boot.pc = "import"
    /\ boot' = IF HasCryptography(boot)
               THEN [boot EXCEPT !.pc = "switch", !.imported = TRUE]
               ELSE [boot EXCEPT !.pc = "crashed", !.imported = TRUE,
                                 !.error = "ImportError"]
    /\ UNCHANGED <<store, httpd>>

\* lines 16-17: the bootstrap; what it returns is not looked at.  After
\* execv the script runs under the environment's interpreter, whose prefix
\* spells venv_name or not.
Switch(fail, seen) ==
    /\ boot.pc = "switch"
    /\ LET r == AutoSwitch(boot, ServerPackages, fail)
           env == [boot EXCEPT !.dir = r.dir, !.python = r.python, !.pkgs = r.pkgs,
                               !.created = @ + (IF "create" \in r.did THEN 1 ELSE 0),
                               !.found = r.found, !.did = r.did, !.failed = r.failed]
       IN  /\ r.failed = fail
           /\ r.outcome # "exec" => seen = "target"
           /\ boot' = CASE r.outcome = "exec" ->
                             [env EXCEPT !.pc = "import", !.interp = seen,
                                         !.flag = TRUE, !.launches = @ + 1,
                                         !.ret = "none", !.switched = TRUE]
                        [] r.outcome = "raise" ->
                             [env EXCEPT !.pc = "crashed", !.error = r.failed]
                        [] OTHER ->
                             [env EXCEPT !.pc = "construct", !.ret = r.outcome,
                                         !.switched = TRUE]
    /\ UNCHANGED <<store, httpd>>

\* line 20: SSLManager(common_name='localhost')
ServerConstruct(fail) ==
    /\ boot.pc = "construct"
    /\ Construct(ServerName, DefaultConfig, fail)
    /\ boot' = [boot EXCEPT !.pc = IF last'.result = "ok" THEN "context" ELSE "crashed",
                            !.error = last'.result]
    /\ UNCHANGED httpd

\* variant: the script goes on whatever get_ssl_context() did
AfterContextMutGoOn(result) == "bind"

\* line 21: an exception of get_ssl_context() ends the script
AfterContext(result) == IF result = "ok" THEN "bind" ELSE "crashed"

ServerContext(m, fail, skew) ==
    /\ boot.pc = "context"
    /\ GetSslContext(m, fail, skew)
    /\ boot' = [boot EXCEPT !.pc = AfterContext(last'.result), !.error = last'.result]
    /\ httpd' = [httpd EXCEPT !.ctx = IF last'.result = "ok" THEN "ok" ELSE "failed"]

\* lines 24-25: HTTPServer(...) binds the address and listens
ServerBind(ok) ==
    /\ boot.pc = "bind"
    /\ boot' = [boot EXCEPT !.pc = IF ok THEN "wrap" ELSE "crashed",
                            !.error = IF ok THEN "ok" ELSE "OSError"]
    /\ httpd' = [httpd EXCEPT !.bound = ok]
    /\ UNCHANGED store

\* line 26: the listening socket is wrapped with the context
Wrap(h) == [h EXCEPT !.wrapped = h.ctx = "ok"]

ServerWrap ==
    /\ boot.pc = "wrap"
    /\ boot' = [boot EXCEPT !.pc = "serve"]
    /\ httpd' = Wrap(httpd)
    /\ UNCHANGED store

\* line 30: serve_forever() accepts a connection
Accept ==
    /\ boot.pc = "serve"
    /\ httpd.accepted < MaxConn
    /\ httpd' = [httpd EXCEPT !.accepted = @ + 1]
    /\ UNCHANGED <<store, boot>>

\* lines 31-33: KeyboardInterrupt, server_close()
Interrupt ==
    /\ boot.pc = "serve"
    /\ boot' = [boot EXCEPT !.pc = "closed"]
    /\ httpd' = [httpd EXCEPT !.bound = FALSE]
    /\ UNCHANGED store

\* the environments a first invocation can find: none, a directory without
\* an interpreter, an environment without and with the packages
InitServer ==
    /\ disk = <<>>
    /\ dirExists = FALSE
    /\ managers = {}
    /\ nextKey = 1
    /\ now = 0
    /\ last = NoCall
    /\ procs = <<>>
    /\ \E host \in BOOLEAN :
         \E env \in { Environment(FALSE, FALSE, {}, host),
                      Environment(TRUE, FALSE, {}, host),
                      Environment(TRUE, TRUE, {}, host),
                      Environment(TRUE, TRUE, ServerPackages, host) } :
            boot = NoProcess @@ env
    /\ httpd = NoServer
    /\ alias = NoRun
    /\ split = NoSplit

NextServer ==
    /\ \/ \E interp \in Interpreters, flag \in BOOLEAN : Launch(interp, flag)
       \/ Import
       \/ \E f \in SwitchFailures, seen \in OfTarget : Switch(f, seen)
       \/ \E f \in MkdirFailures : ServerConstruct(f)
       \/ \E m \in managers, f \in Failures : ServerContext(m, f, 0)
       \/ \E ok \in BOOLEAN : ServerBind(ok)
       \/ ServerWrap
       \/ Accept
       \/ Interrupt
    /\ UNCHANGED <<alias, split>>

SpecServer == InitServer /\ [][NextServer]_vars

\* the interpreter runs the script on: every image gets through its imports
\* and its call of auto_switch()
SpecBoot ==
    /\ InitServer
    /\ [][NextServer]_vars
    /\ WF_vars(Import /\ UNCHANGED <<alias, split>>)
    /\ WF_vars(/\ \E f \in SwitchFailures, seen \in OfTarget : Switch(f, seen)
               /\ UNCHANGED <<alias, split>>)

\* one run of 1P_fastmail_alias.py
InitAlias ==
    /\ disk = <<>>
    /\ dirExists = FALSE
    /\ managers = {}
    /\ nextKey = 1
    /\ now = 0
    /\ last = NoCall
    /\ procs = <<>>
    /\ boot = NoBoot
    /\ httpd = NoServer
    /\ alias = NoRun
    /\ split = NoSplit

NextAlias ==
    /\ \/ \E title \in Titles, vault \in Vaults, token \in Tokens, url \in Urls,
            tags \in TagLists, dry, installed, signed \in BOOLEAN :
               ParseArgs(title, vault, token, url, tags, dry, installed, signed)
       \/ \E ok \in BOOLEAN : MakeClients(ok)
       \/ SignedIn
       \/ \E ok \in BOOLEAN : MaskedEmail(ok)
       \/ GeneratePassword
       \/ \E ok \in BOOLEAN : LoginItem(ok)
    /\ UNCHANGED <<store, boot, httpd, split>>

SpecAlias == InitAlias /\ [][NextAlias]_vars

\* one call of split_file()
InitSplit ==
    /\ disk = <<>>
    /\ dirExists = FALSE
    /\ managers = {}
    /\ nextKey = 1
    /\ now = 0
    /\ last = NoCall
    /\ procs = <<>>
    /\ boot = NoBoot
    /\ httpd = NoServer
    /\ alias = NoRun
    /\ split = NoSplit

NextSplit ==
    /\ \/ \E base \in BaseNames, content \in Contents, max \in 0..MaxChunk :
               SplitStart(base, content, max)
       \/ \E ok \in BOOLEAN : WriteChunk(ok)
       \/ MoveOriginal
    /\ UNCHANGED <<store, boot, httpd, alias>>

SpecSplit == InitSplit /\ [][NextSplit]_vars

(***************************************************************************)
(* Processes that share the store: each has constructed an SSLManager for   *)
(* the same common name and calls get_ssl_context() once.  A step is one    *)
(* access to the store: the existence check of ensure_certificate, the      *)
(* write of the key file, the write of the certificate file, and the two    *)
(* reads of load_cert_chain.  Nothing locks the store.                      *)
(***************************************************************************)
Procs == 1..MaxProcs
RaceManager == Manager(<<"a">>, Usual)

Proc(pc) == [pc |-> pc, key |-> NoKey, made |-> Absent, gotCert |-> Absent,
             gotKey |-> Absent, result |-> "none"]

\* ensure_certificate: the existence check
RaceCheck(p) ==
    /\ procs[p].pc = "check"
    /\ procs' = [procs EXCEPT ![p].pc =
                    IF BothExist(RaceManager, disk, dirExists)
                    THEN "load_cert" ELSE "generate"]
    /\ UNCHANGED <<disk, dirExists, managers, nextKey, now, last>>

\* generate_self_signed_cert: the key and the certificate, in memory
RaceGenerate(p) ==
    /\ procs[p].pc = "generate"
    /\ procs' = [procs EXCEPT
                    ![p].pc = "write_key",
                    ![p].key = FreshKey(nextKey),
                    ![p].made = CertFile(BuildCert(RaceManager, FreshKey(nextKey),
                                    RandomSerial(nextKey), Readings(now, 0)))]
    /\ nextKey' = nextKey + 1
    /\ UNCHANGED <<disk, dirExists, managers, now, last>>

RaceWriteKey(p) ==
    /\ procs[p].pc = "write_key"
    /\ disk' = Put(disk, FileId(RaceManager.key_path, dirExists), KeyFile(procs[p].key))
    /\ procs' = [procs EXCEPT ![p].pc = "write_cert"]
    /\ UNCHANGED <<dirExists, managers, nextKey, now, last>>

RaceWriteCert(p) ==
    /\ procs[p].pc = "write_cert"
    /\ disk' = Put(disk, FileId(RaceManager.cert_path, dirExists), procs[p].made)
    /\ procs' = [procs EXCEPT ![p].pc = "load_cert"]
    /\ UNCHANGED <<dirExists, managers, nextKey, now, last>>

\* load_cert_chain: the certificate file is read first
RaceLoadCert(p) ==
    /\ procs[p].pc = "load_cert"
    /\ procs' = [procs EXCEPT ![p].pc = "load_key",
                               ![p].gotCert = FileAt(RaceManager.cert_path, disk)]
    /\ UNCHANGED <<disk, dirExists, managers, nextKey, now, last>>

\* the two files as the process read them
Seen(cc, kc) ==
    LET kf == FileId(RaceManager.key_path, dirExists)
        cf == FileId(RaceManager.cert_path, dirExists)
    IN  [f \in (IF cc = Absent THEN {} ELSE {cf}) \cup (IF kc = Absent THEN {} ELSE {kf})
            |-> IF f = cf THEN cc ELSE kc]

\* load_cert_chain: the key file is read second and checked against the
\* certificate
RaceLoadKey(p) ==
    /\ procs[p].pc = "load_key"
    /\ LET kc == FileAt(RaceManager.key_path, disk)
       IN  procs' = [procs EXCEPT
                ![p].pc = "done",
                ![p].gotKey = kc,
                ![p].result = LoadCertChain(RaceManager,
                                  Seen(procs[p].gotCert, kc), dirExists).result]
    /\ UNCHANGED <<disk, dirExists, managers, nextKey, now, last>>

\* the processes have constructed their managers; the store is empty
InitRace ==
    /\ disk = <<>>
    /\ dirExists = TRUE
    /\ managers = {RaceManager}
    /\ nextKey = 1
    /\ now = 0
    /\ last = NoCall
    /\ procs = [p \in Procs |-> Proc("check")]
    /\ boot = NoBoot
    /\ httpd = NoServer
    /\ alias = NoRun
    /\ split = NoSplit

NextRace ==
    /\ \E p \in Procs :
        \/ RaceCheck(p)
        \/ RaceGenerate(p)
        \/ RaceWriteKey(p)
        \/ RaceWriteCert(p)
        \/ RaceLoadCert(p)
        \/ RaceLoadKey(p)
    /\ UNCHANGED scripts

SpecRace == InitRace /\ [][NextRace]_vars

(***************************************************************************)
(* Vocabulary of the properties.                                           *)
(***************************************************************************)
KeyFileOf(cn) == FileId(KeyPathOf(cn), dirExists)
CertFileOf(cn) == FileId(CertPathOf(cn), dirExists)
HasKey(cn, d) == Exists(KeyPathOf(cn), d, dirExists)
HasCert(cn, d) == Exists(CertPathOf(cn), d, dirExists)
HasPair(cn, d) == HasKey(cn, d) /\ HasCert(cn, d)

\* the pair of cn on d is a key and a certificate of that key
Matching(cn, d) ==
    /\ HasPair(cn, d)
    /\ d[KeyFileOf(cn)].kind = "key"
    /\ d[CertFileOf(cn)].kind = "cert"
    /\ d[CertFileOf(cn)].cert.pub = d[KeyFileOf(cn)].key

\* ... issued for cn and signed by that key
Paired(cn, d) ==
    /\ Matching(cn, d)
    /\ d[CertFileOf(cn)].cert.subject.cn = cn
    /\ d[CertFileOf(cn)].cert.signer = d[KeyFileOf(cn)].key

Expired(cn, d) ==
    /\ HasCert(cn, d)
    /\ d[CertFileOf(cn)].kind = "cert"
    /\ d[CertFileOf(cn)].cert.not_after < now * TicksPerDay

\* the files of d that lie in the directory dir
FilesIn(dir, d) == { f \in DOMAIN d : f.dir = dir }

\* the keys some file of d holds or certifies
KeysOn(d) ==
    { d[f].key : f \in { x \in DOMAIN d : d[x].kind = "key" } }
    \cup { d[f].cert.pub : f \in { x \in DOMAIN d : d[x].kind = "cert" } }
    \cup { d[f].cert.signer : f \in { x \in DOMAIN d : d[x].kind = "cert" } }

\* the keys handed out before this state
UsedKeys == { FreshKey(i) : i \in 1..(nextKey - 1) }

\* the serial numbers drawn before this state
UsedSerials == { RandomSerial(i) : i \in 1..(nextKey - 1) }

\* the certificates in the files of d
CertsOn(d) == { d[f].cert : f \in { x \in DOMAIN d : d[x].kind = "cert" } }

\* a client that trusts exactly the certificate trusted and expects the host
\* name completes a TLS handshake, at the time day, with a server that uses
\* the context ctx
Handshake(ctx, trusted, name, day) ==
    /\ ctx.loaded
    /\ ctx.cert = trusted
    /\ ctx.cert.pub = ctx.key
    /\ ctx.cert.signer = ctx.cert.pub /\ ctx.cert.issuer = ctx.cert.subject
    /\ name \in ctx.cert.san
    /\ ctx.cert.not_before <= day * TicksPerDay
    /\ day * TicksPerDay <= ctx.cert.not_after

\* the process read a key file of one generation and a certificate file of
\* another
Mixed(p) ==
    /\ procs[p].gotCert.kind = "cert"
    /\ procs[p].gotKey.kind = "key"
    /\ procs[p].gotCert.cert.pub # procs[p].gotKey.key

\* the constructor, the three methods and the command line
Operations == { "init", "generate", "ensure", "context", "cli" }

\* what a read of the path p finds on d when cert_dir exists or not
Read(p, d, de) == IF Exists(p, d, de) THEN d[FileId(p, de)] ELSE Absent

\* the errors a call raises
Errors == { "generation_error", "io_error", "load_error" }

\* the error each failing step raises
Raised(failed) ==
    IF failed \in {"keygen", "build", "sign"} THEN "generation_error" ELSE "io_error"

\* this step is a call of op for cn
IsCall(op, cn) == now' = now /\ last'.op = op /\ last'.cn = cn

\* this step wrote the certificate file of cn
WroteCert(cn) ==
    /\ now' = now /\ last'.cn = cn
    /\ CertFileOf(cn) \in last'.writes
    /\ disk'[CertFileOf(cn)].kind = "cert"

\* C1: a call of ensure_certificate() that directly follows a returned call
\* of ensure_certificate() for the same common name, and returns, leaves
\* every file as the first call left it: it generates nothing and writes
\* nothing.
C1_EnsureIdempotent ==
    [][\A cn \in CommonNames :
        (Again(last, "ensure", cn) /\ IsCall("ensure", cn) /\ last'.result = "ok")
            => (disk' = disk /\ last'.gens = 0 /\ last'.writes = {})]_vars

C1_Witness ==
    /\ last.op = "ensure" /\ last.again /\ last.result = "ok"
    /\ last.gens = 0
    /\ Paired(last.cn, disk)

\* C2: in every reachable state of the store, also after a call that failed
\* part-way, whenever both the key file and the certificate file of the
\* common name of a manager exist, the certificate file holds a certificate
\* issued for that common name, of the key in the key file and signed by it.
C2_PairingInvariant ==
    \A m \in managers :
        HasPair(m.common_name, disk) => Paired(m.common_name, disk)

\* C3: when both files exist, ensure_certificate() returns without
\* generating and leaves every file unchanged, whatever the two files hold.
C3_ExistenceOnly ==
    [][\A cn \in CommonNames :
        (IsCall("ensure", cn) /\ HasPair(cn, disk))
            => /\ last'.result = "ok"
               /\ last'.gens = 0
               /\ last'.writes = {}
               /\ disk' = disk]_vars

\* ensure_certificate() has returned on a pair that cannot be loaded and
\* whose files are not both a sound, unexpired pair
C3_Witness ==
    /\ last.op = "ensure" /\ last.result = "ok" /\ last.gens = 0
    /\ last.had = {"key", "cert"}
    /\ ~Matching(last.cn, disk) \/ Expired(last.cn, disk)

\* C4: when the key file or the certificate file is absent,
\* ensure_certificate() runs the generation exactly once; if it returns,
\* both files were written in that call and hold a key handed out in the
\* call and a certificate for the common name of and signed by that key.
C4_GenerateWhenMissing ==
    [][\A cn \in CommonNames :
        (IsCall("ensure", cn) /\ ~HasPair(cn, disk))
            => /\ last'.gens = 1
               /\ last'.result = "ok" =>
                    /\ last'.writes = {KeyFileOf(cn), CertFileOf(cn)}
                    /\ Paired(cn, disk')
                    /\ disk'[KeyFileOf(cn)].key = last'.key
                    /\ last'.key \notin KeysOn(disk) \cup UsedKeys]_vars

\* ensure_certificate() has generated over a key file that was there alone
C4_Witness ==
    /\ last.op = "ensure" /\ last.result = "ok" /\ last.gens = 1
    /\ last.had = {"key"}
    /\ Paired(last.cn, disk)
    /\ disk[KeyFileOf(last.cn)].key = last.key

C6_Reuse ==
    [][\A cn \in CommonNames :
        (IsCall("context", cn) /\ HasPair(cn, disk))
            => /\ disk' = disk
               /\ last'.writes = {}
               /\ last'.gens = 0
               /\ Matching(cn, disk) =>
                    /\ last'.result = "ok"
                    /\ last'.ctx.loaded
                    /\ last'.ctx.cert = disk[CertFileOf(cn)].cert
                    /\ last'.ctx.key = disk[KeyFileOf(cn)].key]_vars

\* a repeated get_ssl_context() has returned a context of the stored pair
C6_Witness ==
    /\ last.op = "context" /\ last.again /\ last.result = "ok"
    /\ last.had = {"key", "cert"} /\ last.gens = 0 /\ last.writes = {}
    /\ last.ctx.loaded /\ last.ctx.key = disk[KeyFileOf(last.cn)].key

\* C7: when both files exist but one of them is not what it should be, or
\* the certificate is not of the key, get_ssl_context() fails with a load
\* error, returns no context, generates nothing and leaves every file
\* unchanged.
C7_CorruptedPair ==
    [][\A cn \in CommonNames :
        (IsCall("context", cn) /\ HasPair(cn, disk) /\ ~Matching(cn, disk))
            => /\ last'.result = "load_error"
               /\ last'.ctx = NoCtx
               /\ last'.gens = 0
               /\ last'.writes = {}
               /\ disk' = disk]_vars

\* get_ssl_context() has failed on a key file and a certificate of
\* another key
C7_Witness ==
    /\ last.op = "context" /\ last.result = "load_error"
    /\ last.had = {"key", "cert"}
    /\ disk[KeyFileOf(last.cn)].kind = "key"
    /\ disk[CertFileOf(last.cn)].kind = "cert"
    /\ disk[CertFileOf(last.cn)].cert.pub # disk[KeyFileOf(last.cn)].key

\* C8: the key path and the certificate path of two managers of different
\* common names are four different paths, and two managers of the same
\* common name have the same key path and the same certificate path.
C8_NamingDeterminism ==
    [][\A m1 \in managers, m2 \in managers' :
        /\ m1.common_name # m2.common_name
            => Cardinality({m1.key_path, m1.cert_path, m2.key_path, m2.cert_path}) = 4
        /\ m1.common_name = m2.common_name
            => m1.key_path = m2.key_path /\ m1.cert_path = m2.cert_path]_vars

\* C9: a call of ensure_certificate(), generate_self_signed_cert() or
\* get_ssl_context() for a common name a neither writes nor changes the key
\* file or the certificate file of any other common name b, whether the call
\* returns or fails.
C9_Independence ==
    [][\A a \in CommonNames, b \in CommonNames :
        (a # b /\ (IsCall("ensure", a) \/ IsCall("generate", a) \/ IsCall("context", a)))
            => /\ FileAt(KeyPathOf(b), disk') = FileAt(KeyPathOf(b), disk)
               /\ FileAt(CertPathOf(b), disk') = FileAt(CertPathOf(b), disk)
               /\ last'.writes \cap {KeyFileOf(b), CertFileOf(b)} = {}]_vars

\* C10: every call of generate_self_signed_cert() that returns has written
\* both files, whether or not they existed: the key file holds a key handed
\* out in this call, which no file held and no earlier call was given, and
\* the certificate file holds a certificate of that key, signed by it.
C10_UnconditionalRegeneration ==
    [][\A cn \in CommonNames :
        (IsCall("generate", cn) /\ last'.result = "ok")
            => /\ last'.gens = 1
               /\ last'.writes = {KeyFileOf(cn), CertFileOf(cn)}
               /\ last'.key \notin KeysOn(disk) \cup UsedKeys
               /\ Paired(cn, disk')
               /\ disk'[KeyFileOf(cn)].key = last'.key]_vars

\* generate_self_signed_cert() has replaced a pair that existed
C10_Witness ==
    /\ last.op = "generate" /\ last.result = "ok"
    /\ last.had = {"key", "cert"}
    /\ Paired(last.cn, disk)
    /\ disk[KeyFileOf(last.cn)].key = last.key
    /\ last.key > 1

\* C11 (as stated): every certificate written has issuer = subject
\* (CN = common_name, O = "Local Development"), a SAN list of exactly
\* common_name, and not-after equal to not-before plus valid_days days, hence
\* strictly later than not-before.
C11_SelfSignedValidity ==
    [][\A m \in managers' :
        WroteCert(m.common_name)
            => LET c == disk'[CertFileOf(m.common_name)].cert
               IN  /\ c.subject = Name(m.common_name)
                   /\ c.issuer = c.subject
                   /\ c.san = {m.common_name}
                   /\ c.not_after = c.not_before + m.valid_days * TicksPerDay
                   /\ c.not_after > c.not_before]_vars

\* C11 (amended): every certificate written has issuer = subject
\* (CN = common_name, O = "Local Development") and a SAN list of exactly
\* common_name; its not-after is not-before plus valid_days days plus the
\* time the clock advanced between the two readings (less than a day), so it
\* is never earlier than not-before, and strictly later when valid_days is
\* positive.
C11_ValidityWithinSkew ==
    [][\A m \in managers' :
        WroteCert(m.common_name)
            => LET c == disk'[CertFileOf(m.common_name)].cert
                   lapse == c.not_after - (c.not_before + m.valid_days * TicksPerDay)
               IN  /\ c.subject = Name(m.common_name)
                   /\ c.issuer = c.subject
                   /\ c.san = {m.common_name}
                   /\ 0 <= lapse /\ lapse < TicksPerDay
                   /\ c.not_after >= c.not_before
                   /\ m.valid_days > 0 => c.not_after > c.not_before]_vars

\* a certificate of the usual configuration was written while the clock
\* advanced between the two readings
C11_Witness ==
    /\ last.op = "generate" /\ last.result = "ok"
    /\ \E m \in managers :
        /\ m.common_name = last.cn /\ m.valid_days = 1
        /\ CertFileOf(last.cn) \in DOMAIN disk
        /\ disk[CertFileOf(last.cn)].kind = "cert"
        /\ disk[CertFileOf(last.cn)].cert.pub = last.key
        /\ disk[CertFileOf(last.cn)].cert.not_after
               > disk[CertFileOf(last.cn)].cert.not_before + TicksPerDay

C13_RoundTrip ==
    [][\A cn \in CommonNames :
        (/\ After(last, cn) = "generate"
         /\ IsCall("context", cn)
         /\ ~Expired(cn, disk))
            => /\ last'.result = "ok"
               /\ last'.gens = 0
               /\ disk' = disk
               /\ last'.ctx.key = last.key
               /\ Handshake(last'.ctx, disk[CertFileOf(cn)].cert, cn, now)]_vars

C13_Witness ==
    /\ last.op = "context" /\ last.after = "generate" /\ last.result = "ok"
    /\ last.ctx.loaded
    /\ last.ctx.key = FreshKey(nextKey - 1)
    /\ Handshake(last.ctx, disk[CertFileOf(last.cn)].cert, last.cn, now)

\* C14: with no lock on the store, two processes that call get_ssl_context()
\* for the same common name on a store without the pair can both pass the
\* existence check and both generate, and a process can then load the key
\* file of one generation and the certificate file of the other.  Whenever a
\* process has read such a pair, two different processes generated the two
\* halves, and the load of the pair fails.
C14_LostUpdate ==
    \A p \in DOMAIN procs :
        Mixed(p)
            => /\ \E q1 \in DOMAIN procs, q2 \in DOMAIN procs :
                    /\ q1 # q2
                    /\ procs[q1].key = procs[p].gotKey.key
                    /\ procs[q2].key = procs[p].gotCert.cert.pub
               /\ procs[p].pc = "done" /\ procs[p].result = "load_error"

\* both processes passed the existence check and generated, and one of them
\* loaded the key of one generation with the certificate of the other
C14_Witness ==
    /\ \A q \in DOMAIN procs : procs[q].key # NoKey
    /\ \E p \in DOMAIN procs : procs[p].pc = "done" /\ Mixed(p)

\* C15: generation writes the key file before the certificate file.  When
\* the certificate file cannot be opened or written after the key file was
\* written, the call raises an I/O error and the key file holds the new key:
\* it is neither removed nor put back as it was.  The certificate file is as
\* it was, or truncated when the failure came after it was opened.  A failure
\* before the key file is written leaves the certificate file untouched.
C15_NoCleanup ==
    [][\A cn \in CommonNames :
        (now' = now /\ last'.cn = cn)
            => /\ last'.failed \in {"cert_open", "cert_write"}
                    => /\ last'.result = "io_error"
                       /\ last'.key = FreshKey(nextKey)
                       /\ FileAt(KeyPathOf(cn), disk') = KeyFile(last'.key)
                       /\ FileAt(CertPathOf(cn), disk')
                              \in {FileAt(CertPathOf(cn), disk), Truncated}
               /\ last'.failed \in {"keygen", "build", "key_open", "key_write"}
                    => FileAt(CertPathOf(cn), disk') = FileAt(CertPathOf(cn), disk)]_vars

\* a regeneration over an existing pair failed at the certificate file: the
\* new key lies next to the certificate of the key before
C15_Witness ==
    /\ last.failed = "cert_open" /\ last.result = "io_error"
    /\ last.had = {"key", "cert"}
    /\ FileAt(KeyPathOf(last.cn), disk) = KeyFile(last.key)
    /\ FileAt(CertPathOf(last.cn), disk).kind = "cert"
    /\ FileAt(CertPathOf(last.cn), disk).cert.pub # last.key

\* C16: a failure in key generation, signing, directory creation or a file
\* write ends the call with that error, and a failed load of the context
\* ends get_ssl_context() with the load error: no context is returned.  No
\* call runs generation a second time: it draws at most one key, and the key
\* it reports is the key of its only attempt.
C16_HardStop ==
    [][(now' = now /\ last'.op \in Operations)
        => /\ last'.gens <= 1
           /\ nextKey' <= nextKey + 1
           /\ last'.key # NoKey => last'.key = FreshKey(nextKey)
           /\ last'.failed # "none"
                => (last'.result = Raised(last'.failed) /\ ~last'.ctx.loaded)
           /\ last'.result \in Errors => ~last'.ctx.loaded
           /\ last'.result = "load_error"
                => (last'.op = "context" /\ last'.failed = "none"
                    /\ nextKey' - nextKey = last'.gens)
           /\ last'.result = "ok" => last'.failed = "none"]_vars

\* get_ssl_context() generated once, failed at the certificate file and
\* raised
C16_Witness ==
    /\ last.op = "context" /\ last.gens = 1
    /\ last.failed = "cert_write" /\ last.result = "io_error"
    /\ ~last.ctx.loaded
    /\ nextKey = 2

\* C17: for an SSLManager configured with a non-positive key_size or
\* valid_days, no operation creates the directory or creates or modifies a
\* key or certificate file.
C17_ConfigRejectedBeforeIO ==
    [][\A m \in managers' :
        (/\ m.key_size <= 0 \/ m.valid_days <= 0
         /\ now' = now /\ last'.op \in Operations /\ last'.cn = m.common_name)
            => (dirExists' = dirExists /\ disk' = disk)]_vars

C19_NeverPruned ==
    [][(now' = now /\ last'.op \in Operations)
        => /\ DOMAIN disk \subseteq DOMAIN disk'
           /\ \A cn \in CommonNames :
                HasPair(cn, disk)
                    => /\ Exists(KeyPathOf(cn), disk', dirExists')
                       /\ Exists(CertPathOf(cn), disk', dirExists')
                       /\ (last'.cn = cn /\ last'.op \in {"ensure", "context"})
                            => (last'.gens = 0 /\ disk' = disk)]_vars

\* a pair whose certificate has expired was reused
C19_Witness ==
    /\ last.op \in {"ensure", "context"} /\ last.gens = 0
    /\ HasPair(last.cn, disk)
    /\ Paired(last.cn, disk)
    /\ Expired(last.cn, disk)

\* C20: every run of the script that gets past the constructor generates,
\* whether or not the pair exists: a run that succeeds leaves a new key and
\* its certificate in the two files, and the script prints the key path and
\* then the certificate path if and only if generation completed without
\* error.
C20_CliAlwaysGenerates ==
    [][\A cn \in CommonNames :
        IsCall("cli", cn)
            => /\ last'.failed # "mkdir" => last'.gens = 1
               /\ last'.failed \notin {"mkdir", "keygen"}
                    => (last'.key = FreshKey(nextKey) /\ last'.key \notin UsedKeys)
               /\ last'.result = "ok"
                    => /\ Read(KeyPathOf(cn), disk', dirExists') = KeyFile(last'.key)
                       /\ Read(CertPathOf(cn), disk', dirExists').kind = "cert"
                       /\ Read(CertPathOf(cn), disk', dirExists').cert.pub = last'.key
                       /\ last'.printed = Lines(Manager(cn, DefaultConfig))
               /\ last'.result # "ok" => last'.printed = <<>>]_vars

\* a run of the script over an existing pair replaced it and printed the two
\* paths
C20_Witness ==
    /\ last.op = "cli" /\ last.result = "ok"
    /\ last.had = {"key", "cert"}
    /\ last.gens = 1
    /\ FileAt(KeyPathOf(last.cn), disk) = KeyFile(last.key)
    /\ Len(last.printed) = 2
    /\ last.printed[1] = <<"Generated key at", KeyPathOf(last.cn)>>
    /\ last.printed[2] = <<"Generated certificate at", CertPathOf(last.cn)>>

(***************************************************************************)
(* The server script and the bootstrap.                                    *)
(***************************************************************************)
\* the server is in serve_forever()
Serving == boot.pc = "serve"

\* C21: the server serves, and has accepted connections, only after
\* get_ssl_context() returned a context and the listening socket was wrapped
\* with it; after get_ssl_context() failed the script is over, with no socket
\* and no connection
C21_ServeOnlyWrapped ==
    /\ Serving \/ httpd.accepted > 0 => httpd.ctx = "ok" /\ httpd.wrapped
    /\ httpd.ctx = "failed" =>
          boot.pc = "crashed" /\ ~httpd.bound /\ ~httpd.wrapped /\ httpd.accepted = 0

C21_Witness == httpd.accepted > 0 /\ httpd.wrapped /\ last.op = "context" /\ last.ctx.loaded

\* the image is at its imports or in auto_switch()
Bootstrapping == boot.pc \in { "import", "switch" }

\* C22: the images of one invocation re-launch at most once, the re-launched
\* image carries "--venv-activated", and every image leaves the bootstrap
C22_BootstrapTerminates ==
    /\ [](boot.launches <= 1 /\ (boot.launches = 1 => boot.flag))
    /\ Bootstrapping ~> ~Bootstrapping

C22_Witness == boot.launches = 1 /\ boot.flag /\ boot.ret = "true" /\ boot.interp = "renamed"

\* C23: whenever auto_switch() returned True the script runs under the
\* interpreter of the target environment
C23_TrueMeansTarget == boot.ret = "true" => boot.interp \in OfTarget

\* auto_switch() is called and neither raises nor misses the interpreter
Switched == boot.pc = "switch" /\ boot'.failed = "none" /\ boot'.python

\* the interpreters outside every environment that has to do with the target
Outside == { "system", "other" }

\* C24: called under the target environment's interpreter auto_switch()
\* returns True and does nothing; called outside it creates the environment
\* and installs the packages if the directory is missing, does neither if it
\* is there, and re-launches; the environment is created at most once
C24_ThreeStates ==
    [][Switched =>
        /\ boot.interp = "target" => boot'.did = {} /\ boot'.ret = "true"
        /\ boot.interp \in Outside /\ ~boot.dir =>
              boot'.did = { "create", "install", "exec" }
        /\ boot.interp \in Outside /\ boot.dir => boot'.did = { "exec" }
        /\ boot'.created <= 1]_vars

\* C25: in the images of one invocation the code that needs cryptography (the
\* import of ssl_setup) runs only after auto_switch() has completed, so no
\* invocation ends with the ImportError before it bootstrapped
C25_BootstrapBeforeCryptography ==
    /\ boot.imported => boot.switched
    /\ boot.error = "ImportError" => boot.switched

\* auto_switch() gets to the lookup of the interpreter (line 124) and does not
\* find it
NotFound ==
    /\ boot.pc = "switch"
    /\ Found(boot) # "active"
    /\ boot'.pc # "crashed"
    /\ ~boot'.python

\* C26: when the environment's interpreter is not found after the existence
\* check and the creation, auto_switch() returns False and does not
\* re-launch: the same image goes on, with the arguments it had
C26_NotFoundReturnsFalse ==
    [][NotFound =>
        /\ boot'.ret = "false"
        /\ "exec" \notin boot'.did
        /\ boot'.launches = boot.launches
        /\ boot'.interp = boot.interp
        /\ boot'.flag = boot.flag
        /\ boot'.pc = "construct"]_vars

C26_Witness ==
    boot.ret = "false" /\ boot.did = { "create", "install" } /\ ~boot.flag /\ boot.launches = 0

(***************************************************************************)
(* The store again.                                                        *)
(***************************************************************************)
\* both files of cn exist and do not load
Unloadable(cn, d) == HasPair(cn, d) /\ ~Matching(cn, d)

\* a step that neither calls generate_self_signed_cert() directly nor removes
\* files from outside: a constructor, ensure_certificate(),
\* get_ssl_context(), for any name, or the passing of time
NoRepair == now' # now \/ last'.op \in { "init", "ensure", "context" }

\* C27: a pair that exists and does not load stays as it is under every
\* constructor, ensure_certificate() and get_ssl_context(), and
\* get_ssl_context() for its name fails with a load error each time
C27_NoRecovery ==
    [][\A cn \in CommonNames :
        Unloadable(cn, disk) =>
            /\ NoRepair =>
                  /\ Unloadable(cn, disk')
                  /\ disk'[KeyFileOf(cn)] = disk[KeyFileOf(cn)]
                  /\ disk'[CertFileOf(cn)] = disk[CertFileOf(cn)]
            /\ IsCall("context", cn) => last'.result = "load_error" /\ last'.ctx = NoCtx]_vars

\* get_ssl_context() has failed on a certificate file that a failed write
\* left empty
C27_Witness ==
    /\ last.op = "context" /\ last.result = "load_error"
    /\ last.had = {"key", "cert"}
    /\ disk[CertFileOf(last.cn)] = Truncated

(***************************************************************************)
(* The alias script and split_file.                                        *)
(***************************************************************************)
\* what the run has printed so far
PrintedWords == UNION { { alias.out[k][j] : j \in 1..Len(alias.out[k]) } : k \in 1..Len(alias.out) }

\* C28: a dry run sends no request to Fastmail, runs no item-creating
\* command of 1Password, has only mock responses, and never prints the
\* generated password
C28_DryRunNoChange ==
    alias.dry =>
        /\ alias.sent = {}
        /\ "item create" \notin alias.ran
        /\ alias.masked \in { NoResponse, MockMasked("", "") }
        /\ alias.item \in { NoResponse, MockItem }
        /\ Password \notin PrintedWords

\* the least number of chunks of at most max bytes that hold size bytes
Ceil(size, max) == CHOOSE k \in 0..size : k * max >= size /\ (k = 0 \/ (k - 1) * max < size)

\* the chunk files 1..i of the output directory, one after the other
RECURSIVE Joined(_)
Joined(i) ==
    IF i = 0 THEN <<>> ELSE Joined(i - 1) \o split.outdir[ChunkName(split.base, i)]

\* the original has been moved into the output directory
Moved == split.pc # "none" /\ ~split.inPlace

====
